---- MODULE Spec2Model ----
(***************************************************************************)
(* A model of the two batch scripts of CDspec:                             *)
(*   processing/extract_student_data.py   (extract_from_rows,              *)
(*                                          extract_url_from_html,         *)
(*                                          process_files)                 *)
(*   processing/batch_scrape_storymaps.py (scrape_storymaps)               *)
(*                                                                         *)
(* Text is modelled as a sequence of tokens.  A token is one character     *)
(* (" ", ":", "/", "_", ".", letters, digits) or one of the fixed phrases  *)
(* the code searches for, kept atomic: "CD" is the text "Community         *)
(* District", "cd" its lower-case form, "URL" the text "StoryMap URL",     *)
(* "url" its lower-case form, ".html" the file extension.                  *)
(***************************************************************************)
EXTENDS Integers, Sequences, FiniteSets, TLC

VARIABLES
    \* extract_from_rows, one call: its argument, rows scanned, cd, url, issues
    xrows, xi, xcd, xurl, xissues, xpc,
    \* process_files: which source directories exist; the records dict (in
    \* insertion order); the log file; the loop's position in the sorted listing
    \* (the last name taken, the number of names taken); the loop's current
    \* file; the names listed so far in each directory and the Part 2 names a
    \* URL was extracted from; the records as Part 1 left them; the JSON written
    ppc, dir1, dir2, records, log, last, nfiles, curfile, listed1, listed2, got2,
    snap1, output, written,
    \* scrape_storymaps: the record and worklist of the current iteration, the
    \* number of records taken from the data file, the index of the current pair;
    \* the images under the archive root, now and when the run began; the page of
    \* the current visit, the pages open in the browser context, the pages
    \* created; the navigations made; the image paths tested; the pairs of the
    \* current record reached so far; the pairs put on worklists and the pairs
    \* brought to an outcome; the last outcome printed
    spc, srec, snum, worklist, wi, fs, fs0, page, openPages, npages, navs, touched,
    visited, npairs, nresolved, lastOutcome

xvars == <<xrows, xi, xcd, xurl, xissues, xpc>>
pvars == <<ppc, dir1, dir2, records, log, last, nfiles, curfile, listed1, listed2, got2,
           snap1, output, written>>
svars == <<spc, srec, snum, worklist, wi, fs, fs0, page, openPages, npages, navs, touched,
           visited, npairs, nresolved, lastOutcome>>
vars == <<xvars, pvars, svars>>

----------------------------------------------------------------------------
(* Python values and string methods *)

\* Python's None; never equal to a string of the model's alphabet.
None == <<"None">>

\* Python truthiness of an Optional[str]: None and "" are falsy.
Truthy(v) == v /= None /\ v /= <<>>

RECURSIVE LStrip(_)
LStrip(s) == IF s /= <<>> /\ Head(s) = " " THEN LStrip(Tail(s)) ELSE s

RECURSIVE RStrip(_)
RStrip(s) ==
    IF s /= <<>> /\ s[Len(s)] = " " THEN RStrip(SubSeq(s, 1, Len(s) - 1)) ELSE s

\* str.strip()
Strip(s) == RStrip(LStrip(s))

\* str.rstrip('/')
RECURSIVE RStripSlash(_)
RStripSlash(s) ==
    IF s /= <<>> /\ s[Len(s)] = "/" THEN RStripSlash(SubSeq(s, 1, Len(s) - 1)) ELSE s

LowerTok(t) ==
    CASE t = "CD" -> "cd"
      [] t = "URL" -> "url"
      [] t = "A" -> "a"
      [] t = "B" -> "b"
      [] OTHER -> t

\* str.lower()
Lower(s) == [i \in 1..Len(s) |-> LowerTok(s[i])]

\* `phrase in s` for one of the atomic phrases, or a one-character needle
Contains(s, t) == \E i \in 1..Len(s) : s[i] = t

\* s.split(":", 1)[1], defined when ":" is in s
AfterColon(s) ==
    LET k == CHOOSE i \in 1..Len(s) : s[i] = ":" /\ \A j \in 1..(i - 1) : s[j] /= ":"
    IN  SubSeq(s, k + 1, Len(s))

Min(a, b) == IF a < b THEN a ELSE b

----------------------------------------------------------------------------
(* extract_from_rows *)

\* rows[:10]
ScanLimit == 10

\* enumerate(row_str) up to the first cell that holds the label; 0 when none does
FindLabel(row_str, label) ==
    IF \E i \in 1..Len(row_str) : Contains(Lower(row_str[i]), label)
    THEN CHOOSE i \in 1..Len(row_str) :
            /\ Contains(Lower(row_str[i]), label)
            /\ \A j \in 1..(i - 1) : ~Contains(Lower(row_str[j]), label)
    ELSE 0

\* The value taken at label cell i: the next cell, else the text after the colon.
ValueAt(row_str, i) ==
    IF i + 1 <= Len(row_str) /\ row_str[i + 1] /= <<>>
    THEN row_str[i + 1]
    ELSE IF Contains(row_str[i], ":")
         THEN LET p == Strip(AfterColon(row_str[i]))
              IN  IF p /= <<>> THEN p ELSE None
         ELSE None

\* `if not cd: for i, cell in enumerate(row_str): if label in cell.lower(): ... break`
LookFor(row_str, label, cur) ==
    IF Truthy(cur)
    THEN cur
    ELSE LET i == FindLabel(row_str, label)
         IN  IF i = 0
             THEN cur
             ELSE LET v == ValueAt(row_str, i)
                  IN  IF v = None THEN cur ELSE v

\* One iteration of `for row in rows[:10]` on the pair (cd, url).
ScanRow(row, st) ==
    IF row = <<>>
    THEN st
    ELSE LET row_str == [i \in 1..Len(row) |-> Strip(row[i])]
         IN  [cd |-> LookFor(row_str, "cd", st.cd),
              url |-> LookFor(row_str, "url", st.url)]

\* A loop over `rows` in place of `rows[:10]`.
ScanCountAll(rows) == Len(rows)

\* The number of rows the loop visits.
ScanCount(rows) == Min(Len(rows), ScanLimit)

RECURSIVE ScanFrom(_, _, _, _)
ScanFrom(rows, k, n, st) ==
    IF k > n THEN st ELSE ScanFrom(rows, k + 1, n, ScanRow(rows[k], st))

\* extract_from_rows(rows) = (cd, url, issues)
ExtractFromRows(rows) ==
    LET st == ScanFrom(rows, 1, ScanCount(rows), [cd |-> None, url |-> None])
    IN  [cd |-> st.cd, url |-> st.url, issues |-> (~Truthy(st.cd) \/ ~Truthy(st.url))]

----------------------------------------------------------------------------
(* The scripts before they start *)

\* extract_from_rows is not being called on its own.
XIdle ==
    /\ xrows = <<>>
    /\ xi = 0
    /\ xcd = None
    /\ xurl = None
    /\ xissues = FALSE
    /\ xpc = "idle"

\* No file is being processed.
NoFile == [name |-> <<>>, file |-> [kind |-> "none"]]

\* process_files: `records = {}`, nothing listed, nothing logged or written
PStart ==
    /\ ppc = "start"
    /\ records = <<>>
    /\ log = <<>>
    /\ last = <<>>
    /\ nfiles = 0
    /\ curfile = NoFile
    /\ listed1 = {}
    /\ listed2 = {}
    /\ got2 = {}
    /\ snap1 = <<>>
    /\ output = <<>>
    /\ written = FALSE

\* process_files is not run.
PIdle ==
    /\ PStart
    /\ dir1 = FALSE
    /\ dir2 = FALSE

\* No record has been taken from the data file.
NoRecord ==
    [student |-> None, storymap_url |-> None, url_mismatch |-> FALSE,
     storymap_url_2 |-> None]

\* scrape_storymaps: the browser context is new, nothing is visited
SStart ==
    /\ srec = NoRecord
    /\ snum = 0
    /\ worklist = <<>>
    /\ wi = 0
    /\ page = 0
    /\ openPages = {}
    /\ npages = 0
    /\ navs = 0
    /\ touched = {}
    /\ visited = <<>>
    /\ npairs = 0
    /\ nresolved = 0
    /\ lastOutcome = "none"

\* scrape_storymaps is not run.
SIdle ==
    /\ SStart
    /\ spc = "idle"
    /\ fs = <<>>
    /\ fs0 = <<>>

----------------------------------------------------------------------------
(* Inputs of extract_from_rows *)

\* Rows of a table that are not filler.
MaxBody == 2

XCells ==
    { <<>>,
      <<" ", "v">>,
      <<"CD">>,
      <<"cd", ":", "w", " ">>,
      <<" ", "URL", ":">>,
      <<"x", ":", "url">> }

XRows ==
    {<<>>} \cup {<<c>> : c \in XCells} \cup {<<c, d>> : c, d \in XCells}
           \cup {<<<<"CD">>, <<" ">>, <<"cd", ":", "w", " ">>>>}

RECURSIVE SeqsUpTo(_, _)
SeqsUpTo(S, n) ==
    IF n = 0 THEN {<<>>}
    ELSE LET prev == SeqsUpTo(S, n - 1)
         IN  prev \cup {Append(q, e) : q \in {p \in prev : Len(p) = n - 1}, e \in S}

\* A row that is scanned and holds no label.
Filler == << <<"v">> >>

\* Filler rows ahead of the body: none, or enough to push the body across the limit.
Pads == {0, ScanLimit - 1, ScanLimit}

XTables ==
    {[i \in 1..k |-> Filler] \o b : k \in Pads, b \in SeqsUpTo(XRows, MaxBody)}

XStart ==
    /\ xrows \in XTables
    /\ xi = 0
    /\ xcd = None
    /\ xurl = None
    /\ xissues = FALSE
    /\ xpc = "scan"

\* for row in rows[:10]: one iteration
XScanRow ==
    /\ xpc = "scan"
    /\ xi < ScanCount(xrows)
    /\ LET st == ScanRow(xrows[xi + 1], [cd |-> xcd, url |-> xurl])
       IN  /\ xcd' = st.cd
           /\ xurl' = st.url
    /\ xi' = xi + 1
    /\ UNCHANGED <<xrows, xissues, xpc>>
    /\ UNCHANGED <<pvars, svars>>

\* if not cd or not url: issues = True; return cd, url, issues
XReturn ==
    /\ xpc = "scan"
    /\ xi = ScanCount(xrows)
    /\ xissues' = (~Truthy(xcd) \/ ~Truthy(xurl))
    /\ xpc' = "done"
    /\ UNCHANGED <<xrows, xi, xcd, xurl>>
    /\ UNCHANGED <<pvars, svars>>

XNext == XScanRow \/ XReturn

XInit == XStart /\ PIdle /\ SIdle

SpecExtract == XInit /\ [][XNext]_vars

----------------------------------------------------------------------------
(* The contract of extract_from_rows *)

\* The value a row offers for a label: that of its first cell holding the label.
C9Candidate(row, label) ==
    LET cells == [i \in 1..Len(row) |-> Strip(row[i])]
        hits == {i \in 1..Len(row) : Contains(Lower(cells[i]), label)}
    IN  IF hits = {}
        THEN None
        ELSE LET i == CHOOSE h \in hits : \A g \in hits : h <= g
                 next == IF i < Len(row) THEN cells[i + 1] ELSE <<>>
                 rest == IF Contains(cells[i], ":") THEN Strip(AfterColon(cells[i])) ELSE <<>>
             IN  IF next /= <<>> THEN next
                 ELSE IF rest /= <<>> THEN rest
                 ELSE None

\* The value of the first of the first 10 rows that offers one.
C9Expected(rows, label) ==
    LET good == {r \in 1..Len(rows) : r <= 10 /\ C9Candidate(rows[r], label) /= None}
    IN  IF good = {}
        THEN None
        ELSE C9Candidate(rows[CHOOSE r \in good : \A q \in good : r <= q], label)

\* C9: extract_from_rows looks at the first 10 rows only and returns, for each of
\* the labels "community district" and "storymap url" (case-insensitive
\* substring), the trimmed next cell when it is non-empty, else the trimmed text
\* after the first colon of the label cell, else no value (taken from the first
\* row whose first label cell offers a value); issues is true exactly when one
\* of the two returned values is empty.
C9_ExtractContract ==
    xpc = "done" =>
        /\ xcd = C9Expected(xrows, "cd")
        /\ xurl = C9Expected(xrows, "url")
        /\ xissues = (xcd \in {None, <<>>} \/ xurl \in {None, <<>>})
        /\ xi <= 10
        /\ [cd |-> xcd, url |-> xurl, issues |-> xissues] = ExtractFromRows(xrows)

\* A table of more than 10 rows whose only district value sits past row 10, and a
\* label row with an empty next cell and no colon: no district, issues = true.
C9_Witness ==
    /\ xpc = "done"
    /\ Len(xrows) > 10
    /\ \E r \in 11..Len(xrows) : C9Candidate(xrows[r], "cd") /= None
    /\ \E r \in 1..10 : xrows[r] = <<<<"CD">>, <<>>>>
    /\ xcd = None
    /\ xissues

----------------------------------------------------------------------------
(* process_files: file names *)

\* filename.startswith('.')
StartsWithDot(filename) == filename /= <<>> /\ filename[1] \in {".", ".html"}

\* filename.endswith('.html')
EndsWithHtml(filename) == filename /= <<>> /\ filename[Len(filename)] = ".html"

\* filename.split('_')[0]
StudentName(filename) ==
    IF Contains(filename, "_")
    THEN SubSeq(filename, 1,
                (CHOOSE i \in 1..Len(filename) :
                    filename[i] = "_" /\ \A j \in 1..(i - 1) : filename[j] /= "_") - 1)
    ELSE filename

\* The order of the code points of the tokens' first characters.
TokRank(t) ==
    CASE t = "." -> 1
      [] t = ".html" -> 2
      [] t = "1" -> 3
      [] t = "2" -> 4
      [] t = "_" -> 5
      [] t = "a" -> 6
      [] t = "b" -> 7
      [] OTHER -> 8

\* files.sort(): str < str
RECURSIVE LexLess(_, _)
LexLess(s, t) ==
    IF s = <<>> THEN t /= <<>>
    ELSE IF t = <<>> THEN FALSE
    ELSE IF Head(s) = Head(t) THEN LexLess(Tail(s), Tail(t))
    ELSE TokRank(Head(s)) < TokRank(Head(t))

----------------------------------------------------------------------------
(* process_files: the records dict and the log *)

\* The position of key in the dict, 0 when it is not a key.
DictIndex(recs, key) ==
    IF \E i \in 1..Len(recs) : recs[i].student = key
    THEN CHOOSE i \in 1..Len(recs) : recs[i].student = key
    ELSE 0

\* key in records
InDict(recs, key) == DictIndex(recs, key) /= 0

\* A store that never finds the key it is given.
DictSetAppend(recs, key, val) == Append(recs, val)

\* records[key] = val
DictSet(recs, key, val) ==
    IF InDict(recs, key)
    THEN [recs EXCEPT ![DictIndex(recs, key)] = val]
    ELSE Append(recs, val)

\* rec[k] = v
SetKey(rec, k, v) == (k :> v) @@ rec

\* rec.get(k)
Get(rec, k) == IF k \in DOMAIN rec THEN rec[k] ELSE None

\* A key that holds True (a missing key is falsy).
Flag(rec, k) == k \in DOMAIN rec /\ rec[k] = TRUE

\* log_error(f"{kind}: {about} ...")
Msg(kind, about) == <<[kind |-> kind, about |-> about]>>

----------------------------------------------------------------------------
(* process_files: one Part 1 file *)

\* `rows[0][0]` or `rows[1][0]` raises IndexError: a first or second row with no cell
StrictCheckRaises(rows) == Len(rows) >= 2 /\ (rows[1] = <<>> \/ rows[2] = <<>>)

\* strict_ok, when the strict check raises nothing
StrictOk(rows) ==
    /\ Len(rows) >= 2
    /\ Contains(rows[1][1], "CD")
    /\ Contains(rows[2][1], "URL")

\* The body of `for filename in files` for a file that is not hidden: the record
\* stored under the student's name and the lines logged.
Part1Body(filename, f) ==
    LET csvRaises == f.kind /= "text" \/ StrictCheckRaises(f.rows)
        strict_ok == ~csvRaises /\ StrictOk(f.rows)
        ex == IF ~csvRaises THEN ExtractFromRows(f.rows)
              ELSE IF f.pdok THEN ExtractFromRows(f.pdrows)
              ELSE [cd |-> None, url |-> None, issues |-> TRUE]
        logTry ==
            IF ~csvRaises
            THEN (IF strict_ok THEN <<>> ELSE Msg("DEVIANT FORMAT", filename))
            ELSE Msg("CSV FAIL", filename) \o
                 (IF ~f.pdok THEN Msg("FATAL", filename)
                  ELSE IF ex.issues THEN Msg("PANDAS FAIL", filename)
                  ELSE Msg("RECOVERED", filename))
        needs0 == IF csvRaises THEN TRUE ELSE (~strict_ok \/ ex.issues)
        logFinal ==
            (IF ~Truthy(ex.cd) THEN Msg("MISSING DATA district", filename) ELSE <<>>) \o
            (IF ~Truthy(ex.url) THEN Msg("MISSING DATA url", filename) ELSE <<>>)
    IN  [rec |-> [student |-> StudentName(filename),
                  community_district |-> ex.cd,
                  storymap_url |-> ex.url,
                  needs_review |-> (needs0 \/ ~Truthy(ex.cd) \/ ~Truthy(ex.url)),
                  part_1_completed |-> TRUE],
         log |-> logTry \o logFinal]

----------------------------------------------------------------------------
(* process_files: one Part 2 file *)

\* extract_url_from_html: the first anchor's href, else the meta refresh's url=,
\* else None; a read error is logged and gives None.
ExtractUrlFromHtml(h) ==
    IF ~h.readable THEN None
    ELSE IF h.href /= None THEN h.href
    ELSE IF h.meta /= None THEN h.meta
    ELSE None

\* u.strip().rstrip('/').lower() if u else ""
Clean(u) == IF Truthy(u) THEN Lower(RStripSlash(Strip(u))) ELSE <<>>

\* A promotion that does not look at the Part 1 URL.
PromoteAlways(u1_clean, u2_clean) == u2_clean /= <<>>

\* if not u1_clean and u2_clean
Promote(u1_clean, u2_clean) == u1_clean = <<>> /\ u2_clean /= <<>>

\* elif u1_clean and u2_clean and u1_clean != u2_clean
Mismatch(u1_clean, u2_clean) ==
    u1_clean /= <<>> /\ u2_clean /= <<>> /\ u1_clean /= u2_clean

\* The record created for a student found only in Part 2.
NewStudent(student_name, url_2) ==
    [student |-> student_name,
     community_district |-> None,
     storymap_url |-> url_2,
     storymap_url_2 |-> url_2,
     needs_review |-> TRUE,
     part_1_completed |-> FALSE,
     part_2_completed |-> TRUE,
     note |-> "Found only in Part 2"]

\* The body of `for filename in files2` for a file that is not skipped: the
\* records dict afterwards and the lines logged.
Part2Body(recs, filename, h) ==
    LET student_name == StudentName(filename)
        url_2 == ExtractUrlFromHtml(h)
        logRead == IF ~h.readable THEN Msg("HTML FAIL", filename) ELSE <<>>
        k == DictIndex(recs, student_name)
    IN  IF ~Truthy(url_2)
        THEN [recs |-> IF k /= 0
                       THEN [recs EXCEPT ![k] =
                                SetKey(SetKey(@, "needs_review", TRUE),
                                       "part_2_error", "No URL found in HTML")]
                       ELSE recs,
              log |-> logRead \o Msg("PART 2 FAIL", filename)]
        ELSE IF k /= 0
        THEN LET r1 == SetKey(SetKey(recs[k], "storymap_url_2", url_2),
                              "part_2_completed", TRUE)
                 url_1 == Get(r1, "storymap_url")
                 u1_clean == Clean(url_1)
                 u2_clean == Clean(url_2)
             IN  IF Promote(u1_clean, u2_clean)
                 THEN [recs |-> [recs EXCEPT ![k] = SetKey(r1, "storymap_url", url_2)],
                       log |-> logRead \o Msg("UPDATED", student_name)]
                 ELSE IF Mismatch(u1_clean, u2_clean)
                 THEN [recs |-> [recs EXCEPT ![k] = SetKey(r1, "url_mismatch", TRUE)],
                       log |-> logRead \o Msg("URL MISMATCH", student_name)]
                 ELSE [recs |-> [recs EXCEPT ![k] = r1], log |-> logRead]
        ELSE [recs |-> DictSet(recs, student_name, NewStudent(student_name, url_2)),
              log |-> logRead \o Msg("NEW STUDENT", student_name)]

----------------------------------------------------------------------------
(* process_files: the files of the two source directories *)

\* Files taken from the listing of lecture_checklists/cdspec_1 in one run.
MaxFiles1 == 2

\* Files taken from the listing of lecture_checklists/cdspec_2 in one run.
MaxFiles2 == 2

Names1 ==
    { <<"a", "_", "1">>, <<"a", "_", "2">>, <<".", "b", "_", "1">> }

Names2 ==
    { <<"a", "_", "1", ".html">>, <<"a", "_", "2", ".html">>,
      <<"b", "_", "1", ".html">>, <<"b", "_", "2">>,
      <<".", "a", "_", "3", ".html">> }

\* What csv.reader yields for the text files.
Part1Tables ==
    { << <<<<"CD">>, <<"v">>>>, <<<<"URL">>, <<"a">>>> >>,
      << <<<<"CD">>, <<>>, <<>>>>, <<<<"URL">>, <<"A", "/">>>> >>,
      << <<<<"x">>>>, <<<<"cd", ":", "v">>>>, <<<<"url">>, <<"/">>>> >>,
      << <<<<"CD">>, <<"v">>>>, <<<<"URL">>>> >>,
      << <<>>, <<<<"CD">>, <<"v">>>>, <<<<"URL">>, <<"b">>>> >>,
      << <<<<"CD">>, <<"v">>>>, <<>>, <<<<"URL">>, <<"a">>>> >>,
      << >> }

\* pandas.read_csv(header=None) skips the blank lines.
DropBlank(rows) == SelectSeq(rows, LAMBDA r : r /= <<>>)

\* A Part 1 directory entry: a text file (with what csv.reader yields), a file
\* with the PK signature, or an entry open() fails on (a sub-directory); pdok
\* tells whether pandas is installed and reads the file, pdrows what it reads.
Part1Files ==
    {[kind |-> "text", rows |-> t, pdok |-> ok,
      pdrows |-> IF ok THEN DropBlank(t) ELSE <<>>] :
        t \in Part1Tables, ok \in BOOLEAN}
    \cup {[kind |-> "binary", rows |-> <<>>, pdok |-> ok,
           pdrows |-> IF ok THEN << <<<<"CD">>, <<"v">>>>, <<<<"URL">>, <<"b">>>> >> ELSE <<>>] :
             ok \in BOOLEAN}
    \cup {[kind |-> "dir", rows |-> <<>>, pdok |-> FALSE, pdrows |-> <<>>]}

\* A file that is skipped is never opened.
Unopened == [kind |-> "unopened"]

\* The entries a name can stand for; pandas matters only where it is called.
Part1Entries(filename) ==
    IF StartsWithDot(filename)
    THEN {Unopened}
    ELSE {f \in Part1Files :
            f.pdok => (f.kind /= "text" \/ StrictCheckRaises(f.rows))}

Urls2 == { <<"a">>, <<"A", "/">>, <<"b">>, <<"/">> }

\* A Part 2 file: whether it can be read, its first anchor's href and its meta
\* refresh's url= (None when it has none).
HtmlFiles ==
    {[readable |-> FALSE, href |-> None, meta |-> None]}
    \cup {[readable |-> TRUE, href |-> u, meta |-> m] :
            u \in Urls2 \cup {None}, m \in {None, <<"b">>}}

Part2Entries(filename) ==
    IF StartsWithDot(filename) \/ ~EndsWithHtml(filename)
    THEN {Unopened}
    ELSE HtmlFiles

----------------------------------------------------------------------------
(* process_files *)

PInit ==
    /\ PStart
    /\ dir1 \in BOOLEAN
    /\ dir2 \in BOOLEAN
    /\ XIdle
    /\ SIdle

\* if not os.path.exists(SOURCE_DIR_1): log_error("CRITICAL: ...")
P1Missing ==
    /\ ppc = "start"
    /\ ~dir1
    /\ log' = log \o Msg("CRITICAL", <<"cdspec_1">>)
    /\ ppc' = "check2"
    /\ UNCHANGED <<dir1, dir2, records, last, nfiles, curfile, listed1, listed2,
                   got2, output, written>>
    /\ snap1' = records
    /\ UNCHANGED <<xvars, svars>>

\* else: files = os.listdir(SOURCE_DIR_1); files.sort()
P1List ==
    /\ ppc = "start"
    /\ dir1
    /\ ppc' = "part1"
    /\ last' = <<>>
    /\ nfiles' = 0
    /\ UNCHANGED <<dir1, dir2, records, log, curfile, listed1, listed2, got2,
                   output, written, snap1>>
    /\ UNCHANGED <<xvars, svars>>

\* for filename in files: the next name of the sorted listing, and its body
P1File ==
    /\ ppc = "part1"
    /\ nfiles < MaxFiles1
    /\ \E filename \in Names1 :
         /\ LexLess(last, filename)
         /\ \E f \in Part1Entries(filename) :
              /\ last' = filename
              /\ curfile' = [name |-> filename, file |-> f]
              /\ listed1' = listed1 \cup {filename}
              /\ IF StartsWithDot(filename)
                 THEN UNCHANGED <<records, log>>
                 ELSE LET b == Part1Body(filename, f)
                      IN  /\ records' = DictSet(records, StudentName(filename), b.rec)
                          /\ log' = log \o b.log
    /\ nfiles' = nfiles + 1
    /\ UNCHANGED <<ppc, dir1, dir2, listed2, got2, output, written, snap1>>
    /\ UNCHANGED <<xvars, svars>>

\* The listing of SOURCE_DIR_1 is exhausted.
P1End ==
    /\ ppc = "part1"
    /\ ppc' = "check2"
    /\ curfile' = NoFile
    /\ UNCHANGED <<dir1, dir2, records, log, last, nfiles, listed1, listed2, got2,
                   output, written>>
    /\ snap1' = records
    /\ UNCHANGED <<xvars, svars>>

\* if os.path.exists(SOURCE_DIR_2) is false: nothing is done, nothing is logged
P2Missing ==
    /\ ppc = "check2"
    /\ ~dir2
    /\ ppc' = "write"
    /\ UNCHANGED <<dir1, dir2, records, log, last, nfiles, curfile, listed1, listed2,
                   got2, output, written, snap1>>
    /\ UNCHANGED <<xvars, svars>>

\* files2 = os.listdir(SOURCE_DIR_2); files2.sort()
P2List ==
    /\ ppc = "check2"
    /\ dir2
    /\ ppc' = "part2"
    /\ last' = <<>>
    /\ nfiles' = 0
    /\ UNCHANGED <<dir1, dir2, records, log, curfile, listed1, listed2, got2,
                   output, written, snap1>>
    /\ UNCHANGED <<xvars, svars>>

\* for filename in files2: the next name of the sorted listing, and its body
P2File ==
    /\ ppc = "part2"
    /\ nfiles < MaxFiles2
    /\ \E filename \in Names2 :
         /\ LexLess(last, filename)
         /\ \E h \in Part2Entries(filename) :
              /\ last' = filename
              /\ curfile' = [name |-> filename, file |-> h]
              /\ listed2' = listed2 \cup {filename}
              /\ IF StartsWithDot(filename) \/ ~EndsWithHtml(filename)
                 THEN UNCHANGED <<records, log, got2>>
                 ELSE LET b == Part2Body(records, filename, h)
                      IN  /\ records' = b.recs
                          /\ log' = log \o b.log
                          /\ got2' = IF Truthy(ExtractUrlFromHtml(h))
                                     THEN got2 \cup {filename}
                                     ELSE got2
    /\ nfiles' = nfiles + 1
    /\ UNCHANGED <<ppc, dir1, dir2, listed1, output, written, snap1>>
    /\ UNCHANGED <<xvars, svars>>

\* The listing of SOURCE_DIR_2 is exhausted.
P2End ==
    /\ ppc = "part2"
    /\ ppc' = "write"
    /\ curfile' = NoFile
    /\ UNCHANGED <<dir1, dir2, records, log, last, nfiles, listed1, listed2, got2,
                   output, written, snap1>>
    /\ UNCHANGED <<xvars, svars>>

\* data = list(records.values()); json.dump(data, f, indent=2)
PWrite ==
    /\ ppc = "write"
    /\ output' = records
    /\ written' = TRUE
    /\ ppc' = "done"
    /\ UNCHANGED <<dir1, dir2, records, log, last, nfiles, curfile, listed1, listed2,
                   got2, snap1>>
    /\ UNCHANGED <<xvars, svars>>

PNext ==
    \/ P1Missing
    \/ P1List
    \/ P1File
    \/ P1End
    \/ P2Missing
    \/ P2List
    \/ P2File
    \/ P2End
    \/ PWrite

SpecProcess == PInit /\ [][PNext]_vars

----------------------------------------------------------------------------
(* The contract of process_files *)

\* The number of records of the output whose student field is id.
CountFor(out, id) == Cardinality({i \in 1..Len(out) : out[i].student = id})

\* The identifiers of all the files listed in either directory.
SeenIds == {StudentName(f) : f \in listed1 \cup listed2}

\* The identifiers of the Part 1 files that are not hidden and of the Part 2
\* .html files that are not hidden and yield a URL.
RecordedIds ==
    {StudentName(f) : f \in {g \in listed1 : ~StartsWithDot(g)} \cup got2}

\* C1 as stated: when process_files finishes, every identifier derived from a
\* file seen in either source directory has exactly one record in the output.
C1_Original ==
    ppc = "done" => \A id \in SeenIds : CountFor(output, id) = 1

\* C1 amended: when process_files finishes, the output holds exactly one record
\* for every identifier derived from a Part 1 file that is not hidden or from a
\* Part 2 .html file that is not hidden and from which a URL is extracted, and
\* no record for any other identifier.
C1_ExactlyOneRecord ==
    ppc = "done" =>
        /\ \A id \in RecordedIds : CountFor(output, id) = 1
        /\ \A i \in 1..Len(output) : output[i].student \in RecordedIds

\* Two Part 1 files share an identifier, one Part 2 file yields a URL and another
\* .html file yields none.
C1_Witness ==
    /\ ppc = "done"
    /\ Len(output) >= 1
    /\ \E f, g \in listed1 :
         f /= g /\ ~StartsWithDot(f) /\ ~StartsWithDot(g) /\ StudentName(f) = StudentName(g)
    /\ got2 /= {}
    /\ \E f \in listed2 \ got2 : EndsWithHtml(f) /\ ~StartsWithDot(f)

\* C2 as stated: in the output, url_mismatch is true if and only if storymap_url
\* and storymap_url_2 are both non-empty and their normalized forms (trimmed,
\* trailing slash stripped, lower-cased) differ.
C2_MismatchIff ==
    ppc = "done" =>
        \A i \in 1..Len(output) :
            Flag(output[i], "url_mismatch") <=>
                /\ Truthy(Get(output[i], "storymap_url"))
                /\ Truthy(Get(output[i], "storymap_url_2"))
                /\ Clean(Get(output[i], "storymap_url")) /= Clean(Get(output[i], "storymap_url_2"))

Diagnostics(dir) == {i \in 1..Len(log) : log[i].about = dir}

\* C6 as stated: when a source directory is absent, exactly one diagnostic is
\* logged for it, its phase is skipped, and the output is still written.
C6_Original ==
    ppc = "done" =>
        /\ written
        /\ ~dir1 => (Cardinality(Diagnostics(<<"cdspec_1">>)) = 1 /\ listed1 = {})
        /\ ~dir2 => (Cardinality(Diagnostics(<<"cdspec_2">>)) = 1 /\ listed2 = {})

\* The strict-format pre-check fails, as the claim lists its cases.
StrictFails(rows) ==
    \/ Len(rows) < 2
    \/ rows[1] = <<>>
    \/ rows[2] = <<>>
    \/ ~Contains(rows[1][1], "CD")
    \/ ~Contains(rows[2][1], "URL")

\* C10 as stated: for a Part 1 file read as plain-text rows that fails the strict
\* pre-check, a deviation warning is logged for the file, the fuzzy scan runs
\* over those same rows, and a record is written for the file.
C10_Original ==
    (ppc = "part1" /\ curfile.file.kind = "text" /\ StrictFails(curfile.file.rows)) =>
        /\ \E i \in 1..Len(log) :
             log[i] = [kind |-> "DEVIANT FORMAT", about |-> curfile.name]
        /\ LET k == DictIndex(records, StudentName(curfile.name))
               ex == ExtractFromRows(curfile.file.rows)
           IN  /\ k /= 0
               /\ records[k].community_district = ex.cd
               /\ records[k].storymap_url = ex.url

----------------------------------------------------------------------------
(* scrape_storymaps *)

\* Records taken from the data file in one run.
MaxRecords == 2

\* The records the data file may hold (a missing key reads as None or False).
ScrapeRecords ==
    [student : {<<"a">>, <<"b">>, None},
     storymap_url : {<<"u", "1">>, None},
     url_mismatch : BOOLEAN,
     storymap_url_2 : {<<"u", "2">>, None}]

\* os.path.join(student_dir, f"{label}.png")
OutputPath(student_name, label) == <<student_name, label>>

Paths == {OutputPath(n, l) : n \in {<<"a">>, <<"b">>}, l \in {"part1", "part2"}}

\* The images a previous run left.
OldImage == <<"old">>

ArchiveStates == UNION {[P -> {OldImage}] : P \in SUBSET Paths}

\* A worklist that does not look at url_mismatch.
BuildWorklistBoth(rec) ==
    (IF Truthy(rec.storymap_url)
     THEN <<[label |-> "part1", url |-> rec.storymap_url]>> ELSE <<>>) \o
    (IF Truthy(rec.storymap_url_2)
     THEN <<[label |-> "part2", url |-> rec.storymap_url_2]>> ELSE <<>>)

\* urls_to_process
BuildWorklist(rec) ==
    LET w1 == IF Truthy(rec.storymap_url)
              THEN <<[label |-> "part1", url |-> rec.storymap_url]>>
              ELSE <<>>
    IN  IF rec.url_mismatch
        THEN IF Truthy(rec.storymap_url_2)
             THEN Append(w1, [label |-> "part2", url |-> rec.storymap_url_2])
             ELSE w1
        ELSE w1

\* A test that finds no image.
ExistsNever(path, files) == FALSE

\* os.path.exists(output_path)
Exists(path, files) == path \in DOMAIN files

\* An exception that is not caught ends the script.
AfterFailureAbort(from) == "crashed"

\* except Exception as e: print(...); the loop goes on to the next pair
AfterFailure(from) == "pairs"

\* The output path of the current pair.
CurPath == OutputPath(srec.student, worklist[wi + 1].label)

SInit ==
    /\ SStart
    /\ spc = "loop"
    /\ fs0 \in ArchiveStates
    /\ fs = fs0
    /\ XIdle
    /\ PIdle

\* for student_record in data: the next record; `continue` when it has no
\* student, else its directory and its worklist
SNextRecord ==
    /\ spc = "loop"
    /\ snum < MaxRecords
    /\ \E rec \in ScrapeRecords :
         /\ srec' = rec
         /\ IF ~Truthy(rec.student)
            THEN /\ worklist' = <<>>
                 /\ UNCHANGED <<spc, npairs>>
            ELSE /\ worklist' = BuildWorklist(rec)
                 /\ npairs' = npairs + Len(BuildWorklist(rec))
                 /\ spc' = "pairs"
    /\ snum' = snum + 1
    /\ wi' = 0
    /\ visited' = <<>>
    /\ UNCHANGED <<fs, fs0, page, openPages, npages, navs, touched, nresolved,
                   lastOutcome>>
    /\ UNCHANGED <<xvars, pvars>>

\* The data file holds no further record: the loop over data ends.
SEndData ==
    /\ spc = "loop"
    /\ spc' = "end"
    /\ UNCHANGED <<srec, snum, worklist, wi, fs, fs0, page, openPages, npages, navs,
                   touched, visited, npairs, nresolved, lastOutcome>>
    /\ UNCHANGED <<xvars, pvars>>

\* for label, url in urls_to_process: the worklist is exhausted
SPairsDone ==
    /\ spc = "pairs"
    /\ wi = Len(worklist)
    /\ spc' = "loop"
    /\ UNCHANGED <<srec, snum, worklist, wi, fs, fs0, page, openPages, npages, navs,
                   touched, visited, npairs, nresolved, lastOutcome>>
    /\ UNCHANGED <<xvars, pvars>>

\* if os.path.exists(output_path): print("Skipping"); continue
SSkip ==
    /\ spc = "pairs"
    /\ wi < Len(worklist)
    /\ Exists(CurPath, fs)
    /\ touched' = touched \cup {CurPath}
    /\ visited' = Append(visited, worklist[wi + 1])
    /\ wi' = wi + 1
    /\ nresolved' = nresolved + 1
    /\ lastOutcome' = "skipped"
    /\ UNCHANGED <<spc, srec, snum, worklist, fs, fs0, page, openPages, npages, navs,
                   npairs>>
    /\ UNCHANGED <<xvars, pvars>>

\* page = context.new_page()
SNewPage ==
    /\ spc = "pairs"
    /\ wi < Len(worklist)
    /\ ~Exists(CurPath, fs)
    /\ touched' = touched \cup {CurPath}
    /\ visited' = Append(visited, worklist[wi + 1])
    /\ npages' = npages + 1
    /\ page' = npages + 1
    /\ openPages' = openPages \cup {npages + 1}
    /\ spc' = "goto"
    /\ UNCHANGED <<srec, snum, worklist, wi, fs, fs0, navs, npairs, nresolved,
                   lastOutcome>>
    /\ UNCHANGED <<xvars, pvars>>

\* page.goto(url, wait_until='networkidle', timeout=60000) returns; the sleep
\* and the removal of cookie banners, whose failure is ignored, follow
SGotoOk ==
    /\ spc = "goto"
    /\ navs' = navs + 1
    /\ spc' = "shot"
    /\ UNCHANGED <<srec, snum, worklist, wi, fs, fs0, page, openPages, npages,
                   touched, visited, npairs, nresolved, lastOutcome>>
    /\ UNCHANGED <<xvars, pvars>>

\* page.goto raises (a network error, the 60 s timeout): caught, FAILED printed
SGotoFail ==
    /\ spc = "goto"
    /\ navs' = navs + 1
    /\ spc' = AfterFailure("goto")
    /\ wi' = wi + 1
    /\ nresolved' = nresolved + 1
    /\ lastOutcome' = "failed"
    /\ UNCHANGED <<srec, snum, worklist, fs, fs0, page, openPages, npages, touched,
                   visited, npairs>>
    /\ UNCHANGED <<xvars, pvars>>

\* page.screenshot(path=output_path, full_page=True) writes the image
SShotOk ==
    /\ spc = "shot"
    /\ fs' = (CurPath :> <<"shot", worklist[wi + 1].url>>) @@ fs
    /\ spc' = "close"
    /\ UNCHANGED <<srec, snum, worklist, wi, fs0, page, openPages, npages, navs,
                   touched, visited, npairs, nresolved, lastOutcome>>
    /\ UNCHANGED <<xvars, pvars>>

\* page.screenshot raises: caught, FAILED printed
SShotFail ==
    /\ spc = "shot"
    /\ spc' = AfterFailure("shot")
    /\ wi' = wi + 1
    /\ nresolved' = nresolved + 1
    /\ lastOutcome' = "failed"
    /\ UNCHANGED <<srec, snum, worklist, fs, fs0, page, openPages, npages, navs,
                   touched, visited, npairs>>
    /\ UNCHANGED <<xvars, pvars>>

\* print("Saved"); page.close()
SClosePage ==
    /\ spc = "close"
    /\ openPages' = openPages \ {page}
    /\ spc' = "pairs"
    /\ wi' = wi + 1
    /\ nresolved' = nresolved + 1
    /\ lastOutcome' = "saved"
    /\ UNCHANGED <<srec, snum, worklist, fs, fs0, page, npages, navs, touched,
                   visited, npairs>>
    /\ UNCHANGED <<xvars, pvars>>

\* browser.close(): every page of the browser goes with it
SBrowserClose ==
    /\ spc = "end"
    /\ openPages' = {}
    /\ spc' = "done"
    /\ UNCHANGED <<srec, snum, worklist, wi, fs, fs0, page, npages, navs, touched,
                   visited, npairs, nresolved, lastOutcome>>
    /\ UNCHANGED <<xvars, pvars>>

SNext ==
    \/ SNextRecord
    \/ SEndData
    \/ SPairsDone
    \/ SSkip
    \/ SNewPage
    \/ SGotoOk
    \/ SGotoFail
    \/ SShotOk
    \/ SShotFail
    \/ SClosePage
    \/ SBrowserClose

SpecScrape == SInit /\ [][SNext]_vars

\* The script is one sequential thread and every wait in it is bounded (the
\* navigation by its timeout, the sleep by its 5 s): it always takes its next step.
FairScrape == SInit /\ [][SNext]_vars /\ WF_vars(SNext)

----------------------------------------------------------------------------
(* The contract of scrape_storymaps *)

\* C4: a pair whose target image exists is never navigated and its file is never
\* rewritten: no step changes or removes an image there is, a page is opened
\* or navigated only for a pair whose image is missing, and a run in which the
\* image of every pair reached existed beforehand opens no page, makes no
\* navigation and leaves the archive as it was.
C4_SkipExisting ==
    /\ [](touched \subseteq DOMAIN fs0 => (navs = 0 /\ npages = 0 /\ fs = fs0))
    /\ [][/\ \A q \in DOMAIN fs : q \in DOMAIN fs' /\ fs'[q] = fs[q]
          /\ (npages' /= npages \/ navs' /= navs \/ fs' /= fs) =>
                 OutputPath(srec.student, worklist[wi + 1].label) \notin DOMAIN fs]_vars

\* A finished run over records with several pairs, all of whose images existed.
C4_Witness ==
    /\ spc = "done"
    /\ Cardinality(touched) >= 3
    /\ touched \subseteq DOMAIN fs0
    /\ navs = 0

\* C5: whatever navigations and captures fail, the batch runs to completion: the
\* loop ends with every pair put on a worklist brought to one outcome (skipped,
\* saved or failed), and after a failure the script still reaches the end.
C5_BatchCompletes ==
    /\ <>(spc = "done" /\ nresolved = npairs)
    /\ [](lastOutcome = "failed" => <>(spc = "done"))
    /\ [](nresolved <= npairs /\ (spc \in {"loop", "end", "done"} => nresolved = npairs))

\* The loop has ended after a visit that failed (its page is still open) and a
\* later visit that was saved.
C5_Witness ==
    /\ spc = "end"
    /\ lastOutcome = "saved"
    /\ nresolved = npairs
    /\ \E q \in openPages : q < page

\* C7 as stated: a page is closed when its visit ends, saved or failed: no page is
\* open when the next visit begins or when the loop finishes, and at most one
\* page is ever open.
C7_Original ==
    /\ Cardinality(openPages) <= 1
    /\ spc \in {"loop", "pairs", "end"} => openPages = {}

\* C8 as stated: the worklist of a record always holds ('part1', storymap_url)
\* first, holds ('part2', storymap_url_2) if and only if url_mismatch is true,
\* and the pairs visited are those of the worklist, in its order.
C8_Original ==
    spc \in {"pairs", "goto", "shot", "close"} =>
        /\ Len(worklist) >= 1
        /\ worklist[1] = [label |-> "part1", url |-> srec.storymap_url]
        /\ srec.url_mismatch <=>
               \E i \in 1..Len(worklist) :
                   worklist[i] = [label |-> "part2", url |-> srec.storymap_url_2]
        /\ Len(visited) <= Len(worklist)
        /\ \A i \in 1..Len(visited) : visited[i] = worklist[i]

\* The pairs of a record, as the amended claim lists them.
C8Pairs(rec) ==
    {p \in {[label |-> "part1", url |-> rec.storymap_url],
             [label |-> "part2", url |-> rec.storymap_url_2]} :
        \/ p.label = "part1" /\ Truthy(rec.storymap_url)
        \/ p.label = "part2" /\ rec.url_mismatch /\ Truthy(rec.storymap_url_2)}

\* C8 amended: the worklist of a record holds ('part1', storymap_url) if and only
\* if storymap_url is non-empty and ('part2', storymap_url_2) if and only if
\* url_mismatch is true and storymap_url_2 is non-empty, and nothing else; part1
\* comes before part2, and the pairs visited are those of the worklist, in its
\* order.
C8_Worklist ==
    spc \in {"pairs", "goto", "shot", "close"} =>
        /\ {worklist[i] : i \in 1..Len(worklist)} = C8Pairs(srec)
        /\ Len(worklist) = Cardinality(C8Pairs(srec))
        /\ \A i, j \in 1..Len(worklist) :
               (worklist[i].label = "part1" /\ worklist[j].label = "part2") => i < j
        /\ Len(visited) <= Len(worklist)
        /\ \A i \in 1..Len(visited) : visited[i] = worklist[i]

\* Both pairs of a record with a mismatch were visited, part1 then part2.
C8_Witness ==
    /\ spc = "pairs"
    /\ srec.url_mismatch
    /\ Len(visited) = 2
    /\ visited[1].label = "part1"
    /\ visited[2].label = "part2"

====
